---- MODULE Spec2Model ----
(***************************************************************************)
(* Model of evolutionhttp's serial-line client (local_client.py):          *)
(*   - _CoreClient, the command multiplexer: two FIFO queues, the          *)
(*     _is_cmd_active flag, the 3-attempt write/read exchange;             *)
(*   - BryantEvolutionLocalClient.get_client, the registry of shared       *)
(*     multiplexers.                                                       *)
(* Python strings are sequences of one-character strings, so that          *)
(* split/startswith/"in" are computed, not assumed.                        *)
(* asyncio is cooperative: one action is the code a task runs between two  *)
(* suspension points (device.write, device.read_next under the timeout,    *)
(* awaiting an unresolved future, io.open).                                *)
(***************************************************************************)
EXTENDS Naturals, Sequences, FiniteSets

\* ------------------------------------------------------------ bounds
NumTasks == 3        \* concurrent submitters of one multiplexer
MaxRx == 1           \* lines the serial line can hold unread
NumCallers == 3      \* concurrent callers of get_client
MaxLen == 3          \* characters of a generated payload
MaxCalls == 3        \* _api_request calls of one HTTP client

\* ------------------------------------------------------------ constants
MaxAttempts == 3     \* for attempt in [0, 1, 2]

Tasks == 1 .. NumTasks

\* Python's None: no Python string has an element of more than one character.
None == << "<None>" >>

\* "S1Z1HTSP?"  (read_heating_setpoint(1, 1))
CmdReadHtsp == << "S", "1", "Z", "1", "H", "T", "S", "P", "?" >>
\* "S1Z1HTSP!75"  (set_heating_setpoint(1, 1, 75))
CmdSetHtsp == << "S", "1", "Z", "1", "H", "T", "S", "P", "!", "7", "5" >>
Cmds == { CmdReadHtsp, CmdSetHtsp }

LineAck == << "S", "1", "Z", "1", "H", "T", "S", "P", ":", "A", "C", "K" >>
LineNak == << "S", "1", "Z", "1", "H", "T", "S", "P", ":", "N", "A", "K" >>
LineBogus == << "b", "o", "g", "u", "s" >>
\* what the device may put on the line in answer to a write
Lines == { LineAck, LineNak, LineBogus }

\* ------------------------------------------------------------ pure functions
\* s[i..] of Python (1-based here)
Drop(s, n) == SubSeq(s, n + 1, Len(s))

HasChar(s, ch) == \E i \in 1 .. Len(s) : s[i] = ch

FirstIndex(s, ch) == CHOOSE i \in 1 .. Len(s) :
                        s[i] = ch /\ \A j \in 1 .. (i - 1) : s[j] # ch

\* str.split(ch) for a one-character separator
RECURSIVE Split(_, _)
Split(s, ch) ==
    IF ~HasChar(s, ch) THEN << s >>
    ELSE << SubSeq(s, 1, FirstIndex(s, ch) - 1) >>
             \o Split(Drop(s, FirstIndex(s, ch)), ch)

\* str.startswith
StartsWith(s, p) == Len(p) <= Len(s) /\ SubSeq(s, 1, Len(p)) = p

\* "sub in s"
Contains(s, sub) ==
    \E i \in 1 .. (Len(s) + 1) :
        i + Len(sub) - 1 <= Len(s) /\ SubSeq(s, i, i + Len(sub) - 1) = sub

\* _is_write
IsWrite(cmd) == HasChar(cmd, "!")

\* cmd_verb = cmd.split('!')[0] if _is_write(cmd) else cmd.split('?')[0]
CmdVerb(cmd) == IF IsWrite(cmd) THEN Split(cmd, "!")[1] ELSE Split(cmd, "?")[1]

\* response.startswith(cmd_verb) and not "NAK" in response
AcceptsPrefixOnly(cmd, response) == StartsWith(response, CmdVerb(cmd))
Accepts(cmd, response) ==
    StartsWith(response, CmdVerb(cmd)) /\ ~Contains(response, << "N", "A", "K" >>)

\* the tail of _send_command: None, or parts[1] of a two-part split on ":"
ParseResult(result) ==
    IF result = None THEN None
    ELSE IF Len(Split(result, ":")) # 2 THEN None
    ELSE Split(result, ":")[2]

\* ------------------------------------------------------------ values
\* Optional[int]: None, or an int
NoInt == [none |-> TRUE, int |-> 0]
SomeInt(n) == [none |-> FALSE, int |-> n]

DigitChars == << "0", "1", "2", "3", "4", "5", "6", "7", "8", "9" >>
UpperChars == { "A", "B", "C", "D", "E", "F", "G", "H", "I", "J", "K", "L", "M",
                "N", "O", "P", "Q", "R", "S", "T", "U", "V", "W", "X", "Y", "Z" }
\* the classes [0-9] and [A-Z] of re
IsDigit(ch) == \E i \in 1 .. 10 : DigitChars[i] = ch
IsUpper(ch) == ch \in UpperChars
DigitVal(ch) == (CHOOSE i \in 1 .. 10 : DigitChars[i] = ch) - 1

\* str(n) of a natural number, as an f-string formats it
RECURSIVE IntToStr(_)
IntToStr(n) ==
    IF n < 10 THEN << DigitChars[n + 1] >>
    ELSE IntToStr(n \div 10) \o << DigitChars[(n % 10) + 1] >>

\* int(s) of a string of digits
RECURSIVE StrToInt(_)
StrToInt(s) ==
    IF s = << >> THEN 0
    ELSE 10 * StrToInt(SubSeq(s, 1, Len(s) - 1)) + DigitVal(s[Len(s)])

\* the length of the longest prefix of s made of digits: what "[0-9]+" takes
RECURSIVE DigitRun(_)
DigitRun(s) ==
    IF s # << >> /\ IsDigit(Head(s)) THEN 1 + DigitRun(Tail(s)) ELSE 0

\* _parse_temperature: re.match("([0-9]+)[A-Z]", response) matches at the
\* start of the string; "[0-9]+" is greedy and no digit is in [A-Z], so the
\* match takes the whole leading run of digits and needs an upper-case
\* letter right after it
ParseTemperatureAnyNonDigit(response) ==
    IF response = None THEN NoInt
    ELSE IF /\ DigitRun(response) >= 1
            /\ DigitRun(response) < Len(response)
    THEN SomeInt(StrToInt(SubSeq(response, 1, DigitRun(response))))
    ELSE NoInt
ParseTemperature(response) ==
    IF response = None THEN NoInt
    ELSE IF /\ DigitRun(response) >= 1
            /\ DigitRun(response) < Len(response)
            /\ IsUpper(response[DigitRun(response) + 1])
    THEN SomeInt(StrToInt(SubSeq(response, 1, DigitRun(response))))
    ELSE NoInt

\* Optional[Tuple[str, bool]]: None, or (mode, is_active)
NoMode == [none |-> TRUE, mode |-> << >>, is_active |-> FALSE]
SomeMode(mode, is_active) == [none |-> FALSE, mode |-> mode, is_active |-> is_active]

\* the length of the longest prefix of s made of upper-case letters: "[A-Z]+"
RECURSIVE UpperRun(_)
UpperRun(s) ==
    IF s # << >> /\ IsUpper(Head(s)) THEN 1 + UpperRun(Tail(s)) ELSE 0
\* the length of the longest prefix of s made of spaces: "[ ]*"
RECURSIVE SpaceRun(_)
SpaceRun(s) ==
    IF s # << >> /\ Head(s) = " " THEN 1 + SpaceRun(Tail(s)) ELSE 0

\* read_hvac_mode, lines 110-125: "if not response" holds for None and "";
\* re.match("([A-Z]+)[ ]*([0-9]?)", response) matches a prefix of the
\* string: the leading run of upper-case letters, the spaces after it and
\* one digit if a digit comes next; what follows is not looked at
ReadHvacMode(response) ==
    IF response = None \/ response = << >> THEN NoMode
    ELSE IF UpperRun(response) = 0 THEN NoMode
    ELSE SomeMode(SubSeq(response, 1, UpperRun(response)),
                  /\ Drop(response, UpperRun(response) + SpaceRun(Drop(response, UpperRun(response)))) # << >>
                  /\ IsDigit(Head(Drop(response, UpperRun(response)
                                            + SpaceRun(Drop(response, UpperRun(response)))))))

\* ------------------------------------------------------------ multiplexer state
VARIABLES
    pending_reads,   \* _CoreClient._pending_reads: sequence of (cmd, fut)
    pending_writes,  \* _CoreClient._pending_writes
    is_cmd_active,   \* _CoreClient._is_cmd_active
    pc,              \* where each submitter task is suspended
    arg,             \* cmd of the task's running _send_command call, or None
    fut,             \* the future the task's _send_command created
    cur,             \* (cmd, fut) local to the task's _maybe_process_commands
    attempt,         \* loop variable of the attempt loop
    rx,              \* lines on the serial line, not read yet
    ex,              \* per exchange: device.write calls, read_next calls ended,
                     \* lines received
    order,           \* submitters with an unresolved future, in submission order
    behind,          \* <<w, r>>: write w was submitted while read r was queued
    lastDone,        \* the exchange that resolved a future in the last step
    lastRet          \* the _send_command call that returned in the last step

\* ------------------------------------------------------------ registry state
VARIABLES
    registry,        \* _core_client_registry: tty -> index into futures, 0 if no key
    futures,         \* the futures get_client created: [done, core]
    cores,           \* the _CoreClient objects constructed: the tty each wraps
    opens,           \* per tty, the io.open() calls started
    gpc,             \* where each get_client caller is
    gtty,            \* tty argument of the caller's get_client call
    gfut,            \* core_client_fut local to the call
    endpoint         \* the endpoint the caller's last call returned: [tty, client]

regVars == << registry, futures, cores, opens, gpc, gtty, gfut, endpoint >>

\* ------------------------------------------------------------ enumeration state
VARIABLES
    dev,             \* the device's table, as FakeDevIO._state: a set of <<key, value>>
    enum,            \* the running enumerate_zones call: its locals and what it did
    call             \* the running set_* call of an endpoint: its command, the
                     \* transport writes made since it started, what it returned

extVars == << dev, enum, call >>

\* ------------------------------------------------------------ decoder state
VARIABLES
    inp,             \* the payload handed to a decoder (None for absent)
    out,             \* the decoder applied and the value it returned
    http             \* BryantEvolutionClient: the running _api_request call, the
                     \* commands posted so far, what the call returned

pureVars == << inp, out, http >>

muxVars == << pending_reads, pending_writes, is_cmd_active, pc, arg, fut, cur,
              attempt, rx, ex, order, behind, lastDone, lastRet >>

NoEntry == [cmd |-> None, fut |-> 0]
NoFut == [done |-> FALSE, val |-> None, n |-> 0]
NoEx == [wr |-> 0, rd |-> 0, nl |-> 0]
NoDone == [fut |-> 0, cmd |-> None, val |-> None, wr |-> 0, rd |-> 0, nl |-> 0,
           passed |-> {}]
NoRet == [task |-> 0, cmd |-> None, raw |-> None, val |-> None]

\* the multiplexer state as one value, threaded through the code of a step
St == [pending_reads |-> pending_reads, pending_writes |-> pending_writes,
       is_cmd_active |-> is_cmd_active, pc |-> pc, arg |-> arg, fut |-> fut,
       cur |-> cur, attempt |-> attempt, rx |-> rx, ex |-> ex, order |-> order,
       behind |-> behind, lastDone |-> lastDone, lastRet |-> lastRet]

\* the state a step starts from: lastDone and lastRet report one step only
Now == [St EXCEPT !.lastDone = NoDone, !.lastRet = NoRet]

MuxBecomes(s) ==
    /\ pending_reads' = s.pending_reads
    /\ pending_writes' = s.pending_writes
    /\ is_cmd_active' = s.is_cmd_active
    /\ pc' = s.pc
    /\ arg' = s.arg
    /\ fut' = s.fut
    /\ cur' = s.cur
    /\ attempt' = s.attempt
    /\ rx' = s.rx
    /\ ex' = s.ex
    /\ order' = s.order
    /\ behind' = s.behind
    /\ lastDone' = s.lastDone
    /\ lastRet' = s.lastRet

Becomes(s) ==
    MuxBecomes(s) /\ UNCHANGED regVars /\ UNCHANGED extVars /\ UNCHANGED pureVars

Remove(seq, x) == SelectSeq(seq, LAMBDA y : y # x)

\* F applied to the value of S: the state after one piece of code is the
\* state the next piece starts from
Then(S, F(_)) == CHOOSE r \in { F(v) : v \in { S } } : TRUE

\* asyncio.Future.set_result: a second call raises InvalidStateError and
\* leaves the first result
SetResult(f, v) ==
    [done |-> TRUE, val |-> IF f.done THEN f.val ELSE v, n |-> f.n + 1]

\* _check_rep's condition
CheckRep(s) ==
    (Len(s.pending_reads) > 0 \/ Len(s.pending_writes) > 0) => s.is_cmd_active

\* _maybe_pop_work: the popped entry (NoEntry for None) and the state after
MaybePopWorkReadsFirst(s) ==
    IF Len(s.pending_reads) > 0
    THEN [work |-> Head(s.pending_reads),
          st |-> [s EXCEPT !.pending_reads = Tail(s.pending_reads)]]
    ELSE IF Len(s.pending_writes) > 0
    THEN [work |-> Head(s.pending_writes),
          st |-> [s EXCEPT !.pending_writes = Tail(s.pending_writes)]]
    ELSE [work |-> NoEntry, st |-> s]
MaybePopWorkPeek(s) ==
    IF Len(s.pending_writes) > 0
    THEN [work |-> Head(s.pending_writes), st |-> s]
    ELSE IF Len(s.pending_reads) > 0
    THEN [work |-> Head(s.pending_reads), st |-> s]
    ELSE [work |-> NoEntry, st |-> s]
MaybePopWorkLifo(s) ==
    IF Len(s.pending_writes) > 0
    THEN [work |-> s.pending_writes[Len(s.pending_writes)],
          st |-> [s EXCEPT !.pending_writes =
                               SubSeq(s.pending_writes, 1, Len(s.pending_writes) - 1)]]
    ELSE IF Len(s.pending_reads) > 0
    THEN [work |-> s.pending_reads[Len(s.pending_reads)],
          st |-> [s EXCEPT !.pending_reads =
                               SubSeq(s.pending_reads, 1, Len(s.pending_reads) - 1)]]
    ELSE [work |-> NoEntry, st |-> s]
MaybePopWork(s) ==
    IF Len(s.pending_writes) > 0
    THEN [work |-> Head(s.pending_writes),
          st |-> [s EXCEPT !.pending_writes = Tail(s.pending_writes)]]
    ELSE IF Len(s.pending_reads) > 0
    THEN [work |-> Head(s.pending_reads),
          st |-> [s EXCEPT !.pending_reads = Tail(s.pending_reads)]]
    ELSE [work |-> NoEntry, st |-> s]

\* "await self._device.write(cmd)": the task suspends in the transport write
IssueWrite(s, t) ==
    [s EXCEPT !.pc[t] = "writing", !.ex[t].wr = @ + 1]

\* lines 191-198: unpack the popped entry, raise the flag, enter the loop
StartExchange(s, t, e) ==
    IssueWrite([s EXCEPT !.is_cmd_active = TRUE, !.cur[t] = e,
                         !.attempt[t] = 0, !.ex[t] = NoEx], t)

\* _maybe_process_commands from its first line to its first suspension
\* (pc "writing") or to its return (pc "return")
MaybeProcessCommandsNoGuard(s, t) ==
    IF MaybePopWork(s).work = NoEntry
    THEN [s EXCEPT !.pc[t] = "return"]
    ELSE StartExchange(MaybePopWork(s).st, t, MaybePopWork(s).work)
MaybeProcessCommands(s, t) ==
    IF s.is_cmd_active THEN [s EXCEPT !.pc[t] = "return"]
    ELSE IF MaybePopWork(s).work = NoEntry
    THEN [s EXCEPT !.pc[t] = "return"]
    ELSE StartExchange(MaybePopWork(s).st, t, MaybePopWork(s).work)

\* lines 174-181: the second _check_rep, the split of the result, the return
SendCommandReturn(s, t) ==
    IF ~CheckRep(s) THEN [s EXCEPT !.pc[t] = "failed"]
    ELSE [s EXCEPT !.pc[t] = "idle", !.arg[t] = None, !.fut[t] = NoFut,
                   !.lastRet = [task |-> t, cmd |-> s.arg[t],
                                raw |-> s.fut[t].val,
                                val |-> ParseResult(s.fut[t].val)]]

\* line 173, "result = await fut": a done future does not suspend the task
SendCommandAwaitEager(s, t) ==
    IF s.fut[t].done THEN SendCommandReturn(s, t)
    ELSE IF s.pc[t] = "writing" THEN s
    ELSE [s EXCEPT !.pc[t] = "awaiting"]
SendCommandAwait(s, t) ==
    IF s.pc[t] = "writing" THEN s
    ELSE IF s.fut[t].done THEN SendCommandReturn(s, t)
    ELSE [s EXCEPT !.pc[t] = "awaiting"]

\* lines 208-212: lower the flag, resolve the popped entry's future, drain on;
\* when the drain returns, so do all its callers up to the task's
\* _send_command, which goes on at line 173
Resolve(s, t, response) ==
    [s EXCEPT !.is_cmd_active = FALSE,
              !.fut[s.cur[t].fut] = SetResult(@, response),
              !.cur[t] = NoEntry,
              !.attempt[t] = 0,
              !.ex[t] = NoEx,
              !.order = Remove(@, s.cur[t].fut),
              !.behind = { p \in @ : p[1] # s.cur[t].fut },
              !.lastDone = [fut |-> s.cur[t].fut, cmd |-> s.cur[t].cmd,
                            val |-> response, wr |-> s.ex[t].wr,
                            rd |-> s.ex[t].rd, nl |-> s.ex[t].nl,
                            passed |-> { p[2] : p \in
                                { q \in s.behind : q[1] = s.cur[t].fut } }]]
FinishExchangeNoDrain(s, t, response) ==
    Then(Resolve(s, t, response),
         LAMBDA v : SendCommandAwait([v EXCEPT !.pc[t] = "return"], t))
FinishExchange(s, t, response) ==
    Then(Then(Resolve(s, t, response), LAMBDA v : MaybeProcessCommands(v, t)),
         LAMBDA v : SendCommandAwait(v, t))

\* lines 199-207 once read_next has returned `response` or the timeout has
\* fired (response None): break, next attempt, or the end of the loop
AfterAttemptNoRetry(s, t, response) == FinishExchange(s, t, response)
AfterAttemptOneMore(s, t, response) ==
    IF response # None /\ Accepts(s.cur[t].cmd, response)
    THEN FinishExchange(s, t, response)
    ELSE IF s.attempt[t] < MaxAttempts
    THEN IssueWrite([s EXCEPT !.attempt[t] = @ + 1], t)
    ELSE FinishExchange(s, t, response)
AfterAttempt(s, t, response) ==
    IF response # None /\ Accepts(s.cur[t].cmd, response)
    THEN FinishExchange(s, t, response)
    ELSE IF s.attempt[t] + 1 < MaxAttempts
    THEN IssueWrite([s EXCEPT !.attempt[t] = @ + 1], t)
    ELSE FinishExchange(s, t, response)

\* lines 166-172: _check_rep, the new future, the append, the drain
Enqueue(s, t, cmd) ==
    IF IsWrite(cmd)
    THEN [s EXCEPT !.pending_writes = Append(@, [cmd |-> cmd, fut |-> t]),
                   !.behind = @ \cup { << t, s.pending_reads[i].fut >> :
                                           i \in 1 .. Len(s.pending_reads) }]
    ELSE [s EXCEPT !.pending_reads = Append(@, [cmd |-> cmd, fut |-> t])]

SendCommandStep(s, t, cmd) ==
    IF ~CheckRep(s) THEN [s EXCEPT !.pc[t] = "failed"]
    ELSE Then(Then(Enqueue([s EXCEPT !.arg[t] = cmd, !.fut[t] = NoFut,
                                     !.order = Append(@, t)], t, cmd),
                   LAMBDA v : MaybeProcessCommands(v, t)),
              LAMBDA v : SendCommandAwait(v, t))

\* ------------------------------------------------------------ actions
\* a task calls _send_command(cmd)
SendCommand(t, cmd) ==
    /\ pc[t] = "idle"
    /\ \E now \in { Now } : \E nxt \in { SendCommandStep(now, t, cmd) } : Becomes(nxt)

\* the transport write completes; the device may answer with a line
WriteDone(t, reply) ==
    /\ pc[t] = "writing"
    /\ \E nxt \in { [Now EXCEPT !.pc[t] = "reading",
                                   !.rx = IF reply # None /\ Len(rx) < MaxRx
                                          THEN Append(@, reply)
                                          ELSE @] } : Becomes(nxt)

\* read_next returns the next line
ReadLine(t) ==
    /\ pc[t] = "reading"
    /\ rx # << >>
    /\ \E now \in { [Now EXCEPT !.rx = Tail(@), !.ex[t].rd = @ + 1,
                                   !.ex[t].nl = @ + 1] } :
           \E nxt \in { AfterAttempt(now, t, Head(rx)) } : Becomes(nxt)

\* asyncio.timeout fires first: the read is abandoned
Timeout(t) ==
    /\ pc[t] = "reading"
    /\ \E now \in { [Now EXCEPT !.ex[t].rd = @ + 1] } :
           \E nxt \in { AfterAttempt(now, t, None) } : Becomes(nxt)

\* the event loop resumes a task whose future was resolved
Wake(t) ==
    /\ pc[t] = "awaiting"
    /\ fut[t].done
    /\ \E now \in { Now } : \E nxt \in { SendCommandReturn(now, t) } : Becomes(nxt)

MuxInit ==
    /\ pending_reads = << >>
    /\ pending_writes = << >>
    /\ is_cmd_active = FALSE
    /\ pc = [t \in Tasks |-> "idle"]
    /\ arg = [t \in Tasks |-> None]
    /\ fut = [t \in Tasks |-> NoFut]
    /\ cur = [t \in Tasks |-> NoEntry]
    /\ attempt = [t \in Tasks |-> 0]
    /\ rx = << >>
    /\ ex = [t \in Tasks |-> NoEx]
    /\ order = << >>
    /\ behind = {}
    /\ lastDone = NoDone
    /\ lastRet = NoRet

\* ------------------------------------------------------------ registry
Callers == 1 .. NumCallers
\* "/dev/null", "/dev/zero" of test_client_sharing
Ttys == { "null", "zero" }
NoEndpoint == [tty |-> "", client |-> 0]

\* line 238: cls._core_client_registry[tty] = core_client_fut
PublishNothing(reg, tty, f) == reg
Publish(reg, tty, f) == [reg EXCEPT ![tty] = f]

\* line 236, "if not core_client_fut": a Future object is truthy, so the
\* branch is taken exactly when the key is absent
Missing(reg, tty) == reg[tty] = 0

\* lines 235-240 and 242: look the key up; the first caller creates and
\* publishes the future and suspends in io.open(); a later caller awaits the
\* future, which does not suspend when it is done
GetClient(c, tty) ==
    /\ gpc[c] \in { "idle", "done", "raised" }
    /\ gtty' = [gtty EXCEPT ![c] = tty]
    /\ IF Missing(registry, tty)
       THEN /\ futures' = Append(futures, [done |-> FALSE, core |-> 0])
            /\ registry' = Publish(registry, tty, Len(futures) + 1)
            /\ gfut' = [gfut EXCEPT ![c] = Len(futures) + 1]
            /\ opens' = [opens EXCEPT ![tty] = @ + 1]
            /\ gpc' = [gpc EXCEPT ![c] = "opening"]
            /\ endpoint' = [endpoint EXCEPT ![c] = NoEndpoint]
            /\ UNCHANGED cores
       ELSE /\ gfut' = [gfut EXCEPT ![c] = registry[tty]]
            /\ IF futures[registry[tty]].done
               THEN /\ gpc' = [gpc EXCEPT ![c] = "done"]
                    /\ endpoint' = [endpoint EXCEPT ![c] =
                           [tty |-> tty, client |-> futures[registry[tty]].core]]
               ELSE /\ gpc' = [gpc EXCEPT ![c] = "waiting"]
                    /\ endpoint' = [endpoint EXCEPT ![c] = NoEndpoint]
            /\ UNCHANGED << registry, futures, cores, opens >>
    /\ UNCHANGED muxVars
    /\ UNCHANGED extVars
    /\ UNCHANGED pureVars

\* lines 240-242: io.open() returns; the multiplexer is constructed, the
\* future resolved and, being done, awaited without suspending
OpenDone(c) ==
    /\ gpc[c] = "opening"
    /\ cores' = Append(cores, gtty[c])
    /\ futures' = [futures EXCEPT ![gfut[c]] = [done |-> TRUE, core |-> Len(cores) + 1]]
    /\ gpc' = [gpc EXCEPT ![c] = "done"]
    /\ endpoint' = [endpoint EXCEPT ![c] = [tty |-> gtty[c], client |-> Len(cores) + 1]]
    /\ UNCHANGED << registry, opens, gtty, gfut >>
    /\ UNCHANGED muxVars
    /\ UNCHANGED extVars
    /\ UNCHANGED pureVars

\* line 240: io.open() raises; the exception leaves get_client
OpenFail(c) ==
    /\ gpc[c] = "opening"
    /\ gpc' = [gpc EXCEPT ![c] = "raised"]
    /\ UNCHANGED << registry, futures, cores, opens, gtty, gfut, endpoint >>
    /\ UNCHANGED muxVars
    /\ UNCHANGED extVars
    /\ UNCHANGED pureVars

\* line 242: a caller suspended on the future resumes once it is resolved
GetClientResume(c) ==
    /\ gpc[c] = "waiting"
    /\ futures[gfut[c]].done
    /\ gpc' = [gpc EXCEPT ![c] = "done"]
    /\ endpoint' = [endpoint EXCEPT ![c] =
           [tty |-> gtty[c], client |-> futures[gfut[c]].core]]
    /\ UNCHANGED << registry, futures, cores, opens, gtty, gfut >>
    /\ UNCHANGED muxVars
    /\ UNCHANGED extVars
    /\ UNCHANGED pureVars

RegInit ==
    /\ registry = [tty \in Ttys |-> 0]
    /\ futures = << >>
    /\ cores = << >>
    /\ opens = [tty \in Ttys |-> 0]
    /\ gpc = [c \in Callers |-> "idle"]
    /\ gtty = [c \in Callers |-> "null"]
    /\ gfut = [c \in Callers |-> 0]
    /\ endpoint = [c \in Callers |-> NoEndpoint]

\* ------------------------------------------------------------ enumeration
\* max_zones = 8
MaxZones == 8
\* the task that runs enumerate_zones
EnumTask == 1
\* system ids of test_enumerate
Systems == { 1, 2 }

\* an element of a list[int]
PyInt(n) == [type |-> "int", int |-> n]

NoEnum == [pc |-> "idle", system_id |-> 0, tty |-> "", zone_id |-> 0,
           zones |-> << >>, probes |-> << >>, reads |-> << >>, clients |-> {}]

\* f"S{system_id}Z{zone_id}RT?" of read_current_temperature
CmdReadCurrentTemperature(system_id, zone_id) ==
    << "S" >> \o IntToStr(system_id) \o << "Z" >> \o IntToStr(zone_id)
        \o << "R", "T", "?" >>

\* keys and values of the device's table
KeyName(system_id, zone_id) ==
    << "S" >> \o IntToStr(system_id) \o << "Z" >> \o IntToStr(zone_id)
        \o << "N", "A", "M", "E" >>
KeyRt(system_id, zone_id) ==
    << "S" >> \o IntToStr(system_id) \o << "Z" >> \o IntToStr(zone_id)
        \o << "R", "T" >>
ZoneName(system_id, zone_id) ==
    << "S" >> \o IntToStr(system_id) \o << "Z" >> \o IntToStr(zone_id)
\* "72\xf8F"
Temp72 == << "7", "2", "ø", "F" >>

\* io._state of test_enumerate: names of zones 1 and 3 of system 1 and of
\* zones 4 and 7 of system 2, no temperature
DevNames == { << KeyName(1, 1), ZoneName(1, 1) >>, << KeyName(1, 3), ZoneName(1, 3) >>,
              << KeyName(2, 7), ZoneName(2, 7) >>, << KeyName(2, 4), ZoneName(2, 4) >> }
\* the same zones, answering temperature reads as well
DevNamesAndTemps ==
    DevNames \cup { << KeyRt(1, 1), Temp72 >>, << KeyRt(1, 3), Temp72 >>,
                    << KeyRt(2, 4), Temp72 >>, << KeyRt(2, 7), Temp72 >> }
\* a device whose temperatures and names are of different zones
DevMixed == DevNames \cup { << KeyRt(1, 2), Temp72 >>, << KeyRt(2, 4), Temp72 >> }
DevStates == { DevNames, DevNamesAndTemps, DevMixed }

HasKey(d, key) == \E p \in d : p[1] = key
Lookup(d, key) == (CHOOSE p \in d : p[1] = key)[2]

\* .encode("ascii", errors="ignore").decode(): non-ASCII characters are dropped
AsciiOnly(str) == SelectSeq(str, LAMBDA ch : ch # "ø")

\* FakeDevIO.write of a read command: the line read_next will return
DevReply(d, cmd) ==
    IF HasKey(d, Split(cmd, "?")[1])
    THEN AsciiOnly(Split(cmd, "?")[1] \o << ":" >> \o Lookup(d, Split(cmd, "?")[1]))
    ELSE Split(cmd, "?")[1] \o << ":", "N", "A", "K" >>

\* lines 297-298 for zone_id: get_client finds the resolved future of tty and
\* does not suspend; read_current_temperature submits its command
EnumProbe(s, e, reg, futs, zone_id) ==
    [mux |-> SendCommandStep(s, EnumTask,
                             CmdReadCurrentTemperature(e.system_id, zone_id)),
     enum |-> [e EXCEPT !.zone_id = zone_id,
                        !.probes = Append(@, CmdReadCurrentTemperature(e.system_id, zone_id)),
                        !.clients = @ \cup { futs[reg[e.tty]].core }]]

\* lines 298-300 when _send_command has returned: decode, append the zone,
\* go on with the next zone or return the list
EnumCollect(s, e, reg, futs) ==
    IF e.zone_id < MaxZones
    THEN EnumProbe(s,
                   [e EXCEPT !.reads = Append(@, s.lastRet.val),
                             !.zones = IF ParseTemperature(s.lastRet.val) # NoInt
                                       THEN Append(@, PyInt(e.zone_id)) ELSE @],
                   reg, futs, e.zone_id + 1)
    ELSE [mux |-> s,
          enum |-> [e EXCEPT !.pc = "done",
                             !.reads = Append(@, s.lastRet.val),
                             !.zones = IF ParseTemperature(s.lastRet.val) # NoInt
                                       THEN Append(@, PyInt(e.zone_id)) ELSE @]]

\* the step of the enumerating task goes on in enumerate_zones when its
\* _send_command call has returned
EnumBecomes(nxt) ==
    /\ IF nxt.lastRet.task = EnumTask /\ enum.pc = "running"
       THEN \E r \in { EnumCollect(nxt, enum, registry, futures) } :
                MuxBecomes(r.mux) /\ enum' = r.enum
       ELSE MuxBecomes(nxt) /\ UNCHANGED enum
    /\ UNCHANGED << dev, call >>
    /\ UNCHANGED regVars
    /\ UNCHANGED pureVars

\* a call of enumerate_zones(system_id, tty) for a tty that is open
EnumerateZones(system_id, tty) ==
    /\ enum.pc = "idle"
    /\ pc[EnumTask] = "idle"
    /\ ~Missing(registry, tty)
    /\ futures[registry[tty]].done
    /\ \E r \in { EnumProbe(Now, [NoEnum EXCEPT !.pc = "running",
                                                !.system_id = system_id,
                                                !.tty = tty],
                              registry, futures, 1) } :
           MuxBecomes(r.mux) /\ enum' = r.enum
    /\ UNCHANGED << dev, call >>
    /\ UNCHANGED regVars
    /\ UNCHANGED pureVars

\* the transport write of the enumerating task completes: FakeDevIO.write
\* has put the answer from its table in _next_resp, replacing a line that
\* was not read
EnumWriteDone ==
    /\ pc[EnumTask] = "writing"
    /\ \E nxt \in { [Now EXCEPT !.pc[EnumTask] = "reading",
                                   !.rx = << DevReply(dev, cur[EnumTask].cmd) >>] } :
           Becomes(nxt)

EnumReadLine ==
    /\ pc[EnumTask] = "reading"
    /\ rx # << >>
    /\ \E now \in { [Now EXCEPT !.rx = Tail(@), !.ex[EnumTask].rd = @ + 1,
                                   !.ex[EnumTask].nl = @ + 1] } :
           \E nxt \in { AfterAttempt(now, EnumTask, Head(rx)) } : EnumBecomes(nxt)

EnumTimeout ==
    /\ pc[EnumTask] = "reading"
    /\ \E now \in { [Now EXCEPT !.ex[EnumTask].rd = @ + 1] } :
           \E nxt \in { AfterAttempt(now, EnumTask, None) } : EnumBecomes(nxt)

\* ------------------------------------------------------------ set operations
\* the task that calls the operations of its endpoint
SetTask == 1
\* (system_id, zone_id) of the endpoints of the tests
Endpoints == { << 1, 1 >>, << 2, 2 >> }
Temperatures == { 68, 78 }
HvacModes == { << "h", "e", "a", "t", "_", "c", "o", "o", "l" >>,
               << "C", "O", "O", "L" >>,
               << "h", "e", "a", "t" >>,
               << "H", "e", "a", "t", "_", "C", "o", "o", "l" >> }
FanModes == { << "L", "O", "W" >>, << "l", "o", "w" >>, << "A", "u", "t", "o" >> }

LowerSeq == << "a", "b", "c", "d", "e", "f", "g", "h", "i", "j", "k", "l", "m",
               "n", "o", "p", "q", "r", "s", "t", "u", "v", "w", "x", "y", "z" >>
UpperSeq == << "A", "B", "C", "D", "E", "F", "G", "H", "I", "J", "K", "L", "M",
               "N", "O", "P", "Q", "R", "S", "T", "U", "V", "W", "X", "Y", "Z" >>
\* str.upper(), on ASCII
UpperChar(ch) ==
    IF \E i \in 1 .. 26 : LowerSeq[i] = ch
    THEN UpperSeq[CHOOSE i \in 1 .. 26 : LowerSeq[i] = ch]
    ELSE ch
Upper(str) == [i \in 1 .. Len(str) |-> UpperChar(str[i])]

\* f"S{system_id}Z{zone_id}CLSP!{int(temperature)}"
CmdSetCoolingSetpoint(system_id, zone_id, temperature) ==
    << "S" >> \o IntToStr(system_id) \o << "Z" >> \o IntToStr(zone_id)
        \o << "C", "L", "S", "P", "!" >> \o IntToStr(temperature)
\* f"S{system_id}Z{zone_id}HTSP!{int(temperature)}"
CmdSetHeatingSetpoint(system_id, zone_id, temperature) ==
    << "S" >> \o IntToStr(system_id) \o << "Z" >> \o IntToStr(zone_id)
        \o << "H", "T", "S", "P", "!" >> \o IntToStr(temperature)
\* lines 138-140: "heat_cool" becomes "AUTO"; f"S{system_id}MODE!{hvac_mode.upper()}"
CmdSetHvacMode(system_id, zone_id, hvac_mode) ==
    << "S" >> \o IntToStr(system_id) \o << "M", "O", "D", "E", "!" >>
        \o Upper(IF hvac_mode = << "h", "e", "a", "t", "_", "c", "o", "o", "l" >>
                 THEN << "A", "U", "T", "O" >> ELSE hvac_mode)
\* f"S{system_id}Z{zone_id}FAN!{fan_mode}"
CmdSetFanMode(system_id, zone_id, fan_mode) ==
    << "S" >> \o IntToStr(system_id) \o << "Z" >> \o IntToStr(zone_id)
        \o << "F", "A", "N", "!" >> \o fan_mode

\* return response == "ACK"
SetSucceededLoose(response) ==
    response # None /\ Contains(response, << "A", "C", "K" >>)
SetSucceeded(response) == response = << "A", "C", "K" >>

NoCall == [pc |-> "idle", op |-> "", system_id |-> 0, zone_id |-> 0, arg |-> << >>,
           cmd |-> None, wire |-> << >>, payload |-> None, result |-> FALSE,
           mode |-> NoMode]

\* what the device may answer to a write command: its key, ":" and a payload
\* (FakeDevIO answers f"{key}:ACK"), or a line that is not an answer
SetPayloads == { << "A", "C", "K" >>, << "N", "A", "K" >>,
                 << "A", "C", "K", "A", "C", "K" >>, << "7", "0", "F" >>,
                 << "a", "c", "k" >>, << "A", "C", "K", ":", "1" >> }
DevAnswers(cmd) ==
    { Split(cmd, "!")[1] \o << ":" >> \o p : p \in SetPayloads } \cup { LineBogus }

\* a set operation up to its first suspension, inside _send_command
SetCall(op, system_id, zone_id, value, cmd) ==
    /\ call.pc \in { "idle", "done" }
    /\ pc[SetTask] = "idle"
    /\ \E nxt \in { SendCommandStep(Now, SetTask, cmd) } : MuxBecomes(nxt)
    /\ call' = [NoCall EXCEPT !.pc = "running", !.op = op, !.system_id = system_id,
                              !.zone_id = zone_id, !.arg = value, !.cmd = cmd]
    /\ UNCHANGED << dev, enum >>
    /\ UNCHANGED regVars
    /\ UNCHANGED pureVars

SetCoolingSetpoint(system_id, zone_id, temperature) ==
    SetCall("set_cooling_setpoint", system_id, zone_id, IntToStr(temperature),
            CmdSetCoolingSetpoint(system_id, zone_id, temperature))
SetHeatingSetpoint(system_id, zone_id, temperature) ==
    SetCall("set_heating_setpoint", system_id, zone_id, IntToStr(temperature),
            CmdSetHeatingSetpoint(system_id, zone_id, temperature))
SetHvacMode(system_id, zone_id, hvac_mode) ==
    SetCall("set_hvac_mode", system_id, zone_id, hvac_mode,
            CmdSetHvacMode(system_id, zone_id, hvac_mode))
SetFanMode(system_id, zone_id, fan_mode) ==
    SetCall("set_fan_mode", system_id, zone_id, fan_mode,
            CmdSetFanMode(system_id, zone_id, fan_mode))

\* the step of the calling task goes on in the operation when its
\* _send_command call has returned: in a set operation the comparison with
\* "ACK" and the return, in read_hvac_mode lines 110-125
SetBecomes(nxt) ==
    /\ MuxBecomes(nxt)
    /\ IF nxt.lastRet.task = SetTask /\ call.pc = "running"
       THEN call' = IF call.op = "read_hvac_mode"
                    THEN [call EXCEPT !.pc = "done", !.payload = nxt.lastRet.val,
                                      !.mode = ReadHvacMode(nxt.lastRet.val)]
                    ELSE [call EXCEPT !.pc = "done", !.payload = nxt.lastRet.val,
                                      !.result = SetSucceeded(nxt.lastRet.val)]
       ELSE UNCHANGED call
    /\ UNCHANGED << dev, enum >>
    /\ UNCHANGED regVars
    /\ UNCHANGED pureVars

\* the transport write completes: the command is on the line; the device
\* answers or stays silent
SetWriteDone(reply) ==
    /\ pc[SetTask] = "writing"
    /\ call.pc = "running"
    /\ \E nxt \in { [Now EXCEPT !.pc[SetTask] = "reading",
                                   !.rx = IF reply # None /\ Len(rx) < MaxRx
                                          THEN Append(@, reply)
                                          ELSE @] } : MuxBecomes(nxt)
    /\ call' = [call EXCEPT !.wire = Append(@, cur[SetTask].cmd)]
    /\ UNCHANGED << dev, enum >>
    /\ UNCHANGED regVars
    /\ UNCHANGED pureVars

SetReadLine ==
    /\ pc[SetTask] = "reading"
    /\ call.pc = "running"
    /\ rx # << >>
    /\ \E now \in { [Now EXCEPT !.rx = Tail(@), !.ex[SetTask].rd = @ + 1,
                                   !.ex[SetTask].nl = @ + 1] } :
           \E nxt \in { AfterAttempt(now, SetTask, Head(rx)) } : SetBecomes(nxt)

SetTimeout ==
    /\ pc[SetTask] = "reading"
    /\ call.pc = "running"
    /\ \E now \in { [Now EXCEPT !.ex[SetTask].rd = @ + 1] } :
           \E nxt \in { AfterAttempt(now, SetTask, None) } : SetBecomes(nxt)

SetNext ==
    \/ \E e \in Endpoints, temperature \in Temperatures :
           SetCoolingSetpoint(e[1], e[2], temperature)
    \/ \E e \in Endpoints, temperature \in Temperatures :
           SetHeatingSetpoint(e[1], e[2], temperature)
    \/ \E e \in Endpoints, hvac_mode \in HvacModes : SetHvacMode(e[1], e[2], hvac_mode)
    \/ \E e \in Endpoints, fan_mode \in FanModes : SetFanMode(e[1], e[2], fan_mode)
    \/ \E reply \in DevAnswers(cur[SetTask].cmd) \cup { None } : SetWriteDone(reply)
    \/ SetReadLine
    \/ SetTimeout

\* ------------------------------------------------------------ read_hvac_mode
\* lines 102-109: read_hvac_mode up to its first suspension, inside
\* _send_command(f"S{system_id}MODE?")
ReadHvacModeCall(system_id, zone_id) ==
    SetCall("read_hvac_mode", system_id, zone_id, << >>,
            << "S" >> \o IntToStr(system_id) \o << "M", "O", "D", "E", "?" >>)

\* the transport write completes on a device that holds the payload inp under
\* the key of the command, or has no such key (inp is None): FakeDevIO.write
\* puts f"{key}:{value}" without its non-ASCII characters, or f"{key}:NAK"
\* for a key it has not, in _next_resp, replacing a line that was not read
ReadHvacModeWriteDone ==
    /\ pc[SetTask] = "writing"
    /\ call.pc = "running"
    /\ \E nxt \in { [Now EXCEPT
                        !.pc[SetTask] = "reading",
                        !.rx = << DevReply(IF inp = None THEN {}
                                           ELSE { << Split(cur[SetTask].cmd, "?")[1], inp >> },
                                           cur[SetTask].cmd) >>] } : MuxBecomes(nxt)
    /\ call' = [call EXCEPT !.wire = Append(@, cur[SetTask].cmd)]
    /\ UNCHANGED << dev, enum >>
    /\ UNCHANGED regVars
    /\ UNCHANGED pureVars

\* read_hvac_mode run whole on FakeDevIO
ModeNext ==
    \/ \E e \in Endpoints : ReadHvacModeCall(e[1], e[2])
    \/ ReadHvacModeWriteDone
    \/ SetReadLine
    \/ SetTimeout

ExtInit ==
    /\ dev = {}
    /\ enum = NoEnum
    /\ call = NoCall

\* ------------------------------------------------------------ decoders
\* payloads: every string of at most MaxLen characters of PayloadChars, the
\* payloads of the tests, and None
PayloadChars == { "7", "2", "F", "f", "C", " ", ":", "ø" }
TestPayloads == { << "7", "2", "F" >>, << "7", "5", "ø", "F" >>, << "7", "0", "ø", "F" >>,
                  << "H", "E", "A", "T" >>, << "C", "O", "O", "L", " ", "1" >>,
                  << "A", "U", "T", "O" >>, << "N", "A", "K" >>, << "A", "C", "K" >> }
Payloads ==
    UNION { [1 .. n -> PayloadChars] : n \in 0 .. MaxLen } \cup TestPayloads \cup { None }

NoOut == [fn |-> "", val |-> None]

ParseTemperatureCall ==
    /\ out.fn = ""
    /\ out' = [fn |-> "_parse_temperature", val |-> ParseTemperature(inp)]
    /\ UNCHANGED << inp, http >>
    /\ UNCHANGED << muxVars, regVars, extVars >>

\* the raw line an exchange of "S1Z1HTSP?" ends with: the verb, a separator
\* (":" or none) and the payload; None when the exchange failed
RawLine(sep, payload) ==
    IF payload = None THEN None ELSE CmdVerb(CmdReadHtsp) \o sep \o payload

\* lines 173-181: _send_command once its future holds `raw`
SendCommandTailCall(sep) ==
    /\ out.fn = ""
    /\ out' = [fn |-> "_send_command", raw |-> RawLine(sep, inp),
               val |-> ParseResult(RawLine(sep, inp))]
    /\ UNCHANGED << inp, http >>
    /\ UNCHANGED << muxVars, regVars, extVars >>

\* ------------------------------------------------------------ HTTP client
\* str.strip(), for the space character
RECURSIVE Strip(_)
Strip(str) ==
    IF str # << >> /\ Head(str) = " " THEN Strip(Tail(str))
    ELSE IF str # << >> /\ str[Len(str)] = " " THEN Strip(SubSeq(str, 1, Len(str) - 1))
    ELSE str

\* the commands of read_current_temperature, read_fan_mode and
\* set_fan_mode("LOW") of the endpoint (1, 1), and the raw commands of the tests
CmdReadFanMode == << "S", "1", "Z", "1", "F", "A", "N", "?" >>
CmdInvalid == << "I", "N", "V", "A", "L", "I", "D", "_", "C", "O", "M", "M", "A", "N", "D" >>
HttpCommands == { CmdReadCurrentTemperature(1, 1), CmdReadFanMode,
                  CmdSetFanMode(1, 1, << "L", "O", "W" >>), CmdInvalid }

\* what session.post can end with: an exception (an aiohttp.ClientError such
\* as a refused connection, or the TimeoutError of aiohttp's total timeout,
\* which is no ClientError), or a response with a status
HttpOutcomes ==
    { [error |-> e, status |-> 0] : e \in { "ClientError", "TimeoutError" } }
    \cup { [error |-> "", status |-> st] : st \in { 200, 404, 500 } }

\* what resp.json() can end with: a JSON object with a "response" string or
\* without one, an object whose "response" is null, a JSON array, a body that
\* is not JSON, or a ClientError while the body is read
HttpTexts == { << "7", "2", "F" >>, << "N", "A", "K" >>, << "A", "C", "K" >>,
               << " ", "L", "O", "W", " " >>, << >> }
HttpBodies ==
    { [kind |-> "object", has_response |-> TRUE, response |-> r] : r \in HttpTexts }
    \cup { [kind |-> k, has_response |-> FALSE, response |-> << >>] :
               k \in { "object", "null_response", "array", "not_json", "client_error" } }
NoOutcome == [error |-> "", status |-> 0]
NoBody == [kind |-> "", has_response |-> FALSE, response |-> << >>]

\* result: what _api_request returned; raised: the exception that left it
NoHttp == [pc |-> "idle", command |-> None, calls |-> 0, wire |-> << >>,
           outcome |-> NoOutcome, body |-> NoBody, result |-> None, raised |-> ""]

\* _api_request(command) up to its suspension in session.post
ApiRequest(command) ==
    /\ http.pc \in { "idle", "done" }
    /\ http.calls < MaxCalls
    /\ http' = [http EXCEPT !.pc = "posting", !.command = command, !.calls = @ + 1,
                            !.wire = Append(@, command), !.outcome = NoOutcome,
                            !.body = NoBody, !.result = None, !.raised = ""]
    /\ UNCHANGED << inp, out >>
    /\ UNCHANGED << muxVars, regVars, extVars >>

\* lines 39-40 and 44-46: the post ends. A ClientError is caught and None
\* returned; another exception leaves _api_request; raise_for_status() raises a
\* ClientResponseError, a ClientError, for a status of 400 or more; otherwise
\* the call suspends in resp.json()
ApiAfterPost(h, o) ==
    IF o.error = "ClientError"
    THEN [h EXCEPT !.pc = "done", !.outcome = o, !.result = None]
    ELSE IF o.error # ""
    THEN [h EXCEPT !.pc = "done", !.outcome = o, !.result = None, !.raised = o.error]
    ELSE IF o.status >= 400
    THEN [h EXCEPT !.pc = "done", !.outcome = o, !.result = None]
    ELSE [h EXCEPT !.pc = "reading", !.outcome = o]

\* lines 42-46: resp.json() ends. json.JSONDecodeError is a ValueError; a
\* list has no get and None no strip (AttributeError); neither is a ClientError
ApiAfterJson(h, b) ==
    IF b.kind = "client_error"
    THEN [h EXCEPT !.pc = "done", !.body = b, !.result = None]
    ELSE IF b.kind = "not_json"
    THEN [h EXCEPT !.pc = "done", !.body = b, !.result = None, !.raised = "ValueError"]
    ELSE IF b.kind \in { "array", "null_response" }
    THEN [h EXCEPT !.pc = "done", !.body = b, !.result = None,
                   !.raised = "AttributeError"]
    ELSE [h EXCEPT !.pc = "done", !.body = b,
                   !.result = IF b.has_response THEN Strip(b.response) ELSE << >>]

ApiPostDone(o) ==
    /\ http.pc = "posting"
    /\ http' = ApiAfterPost(http, o)
    /\ UNCHANGED << inp, out >>
    /\ UNCHANGED << muxVars, regVars, extVars >>

ApiJsonDone(b) ==
    /\ http.pc = "reading"
    /\ http' = ApiAfterJson(http, b)
    /\ UNCHANGED << inp, out >>
    /\ UNCHANGED << muxVars, regVars, extVars >>

HttpNext ==
    \/ \E command \in HttpCommands : ApiRequest(command)
    \/ \E o \in HttpOutcomes : ApiPostDone(o)
    \/ \E b \in HttpBodies : ApiJsonDone(b)

PureInit ==
    /\ inp \in Payloads
    /\ out = NoOut
    /\ http = NoHttp

PureNext ==
    \/ ParseTemperatureCall
    \/ \E sep \in { << ":" >>, << >> } : SendCommandTailCall(sep)

QuietInit ==
    /\ inp = None
    /\ out = NoOut
    /\ http = NoHttp

\* the tty has been opened by an earlier get_client call, as test_enumerate
\* sets the registry up
EnumRegInit ==
    /\ registry = [tty \in Ttys |-> IF tty = "null" THEN 1 ELSE 0]
    /\ futures = << [done |-> TRUE, core |-> 1] >>
    /\ cores = << "null" >>
    /\ opens = [tty \in Ttys |-> IF tty = "null" THEN 1 ELSE 0]
    /\ gpc = [c \in Callers |-> "idle"]
    /\ gtty = [c \in Callers |-> "null"]
    /\ gfut = [c \in Callers |-> 0]
    /\ endpoint = [c \in Callers |-> NoEndpoint]

EnumInit ==
    /\ MuxInit
    /\ EnumRegInit
    /\ dev \in DevStates
    /\ enum = NoEnum
    /\ call = NoCall
    /\ QuietInit

EnumNext ==
    \/ \E system_id \in Systems, tty \in Ttys : EnumerateZones(system_id, tty)
    \/ EnumWriteDone
    \/ EnumReadLine
    \/ EnumTimeout

vars == << muxVars, regVars, extVars, pureVars >>

Init == MuxInit /\ RegInit /\ ExtInit /\ QuietInit

RegNext ==
    \/ \E c \in Callers, tty \in Ttys : GetClient(c, tty)
    \/ \E c \in Callers : OpenDone(c)
    \/ \E c \in Callers : OpenFail(c)
    \/ \E c \in Callers : GetClientResume(c)

\* the multiplexer under fair scheduling. The event loop runs every task that
\* is ready (Wake), a transport write completes (WriteDone) and a read_next
\* under asyncio.timeout ends with a line or with the timeout; nothing makes a
\* caller submit. The device answers a write with a line the code accepts, with
\* a line it rejects, or not at all.
LiveReplies == Lines \cup { None }
ExchangeStep(t) ==
    \/ \E reply \in LiveReplies : WriteDone(t, reply)
    \/ ReadLine(t)
    \/ Timeout(t)
TaskStep(t) ==
    \/ ExchangeStep(t)
    \/ Wake(t)
AnySubmit == \E t \in Tasks, cmd \in Cmds : SendCommand(t, cmd)
LiveNext ==
    \/ AnySubmit
    \/ \E t \in Tasks : TaskStep(t)
\* The event loop resumes every coroutine that can run: the one coroutine inside
\* the exchange (is_cmd_active admits a single one) and each caller whose future
\* is done.
Fairness ==
    /\ WF_vars(\E t \in Tasks : ExchangeStep(t))
    /\ \A t \in Tasks : WF_vars(Wake(t))
LiveSpec == Init /\ [][LiveNext]_vars /\ Fairness

\* the HTTP client: _api_request calls, one at a time
HttpSpec == Init /\ [][HttpNext]_vars

\* _parse_temperature and the tail of _send_command applied to payloads
PureSpecInit == MuxInit /\ RegInit /\ ExtInit /\ PureInit
PureSpec == PureSpecInit /\ [][PureNext]_vars

\* the set operations of one endpoint at a time
SetSpec == Init /\ [][SetNext]_vars

\* read_hvac_mode calls of one endpoint at a time, run through the multiplexer
\* against a device that holds one of the payloads, or none
ModeSpec == PureSpecInit /\ [][ModeNext]_vars

\* one enumerate_zones call on an open tty
EnumSpec == EnumInit /\ [][EnumNext]_vars

\* the registry alone: concurrent get_client calls
RegSpec == Init /\ [][RegNext]_vars

\* the registry under fair scheduling: io.open() ends, by returning or by
\* raising, and the event loop resumes a caller whose future is resolved;
\* nothing makes a caller call get_client
RegFairness ==
    \A c \in Callers : /\ WF_vars(OpenDone(c) \/ OpenFail(c))
                       /\ WF_vars(GetClientResume(c))
RegLiveSpec == Init /\ [][RegNext]_vars /\ RegFairness


Next ==
    \/ \E t \in Tasks, cmd \in Cmds : SendCommand(t, cmd)
    \/ \E t \in Tasks, reply \in Lines \cup { None } : WriteDone(t, reply)
    \/ \E t \in Tasks : ReadLine(t)
    \/ \E t \in Tasks : Timeout(t)
    \/ \E t \in Tasks : Wake(t)

Spec == Init /\ [][Next]_vars

\* ------------------------------------------------------------ device
\* a device that answers the command it was sent, as FakeDevIO does: a write
\* stores the value under its key and is answered "<key>:ACK", a read is
\* answered "<key>:<value>" from the table ("<key>:NAK" for a key it has not).
KeyHtsp == << "S", "1", "Z", "1", "H", "T", "S", "P" >>
\* "S1Z1HTSP": "70\xf8F" of FakeDevIO._state
DevHtsp == { << KeyHtsp, << "7", "0", "ø", "F" >> >> }

EndsWith(str, suffix) ==
    Len(suffix) <= Len(str) /\ SubSeq(str, Len(str) - Len(suffix) + 1, Len(str)) = suffix

\* FakeDevIO.write of a write command: the table after it
DevStore(d, cmd) ==
    IF ~IsWrite(cmd) THEN d
    ELSE { p \in d : p[1] # Split(cmd, "!")[1] }
             \cup { << Split(cmd, "!")[1],
                       IF EndsWith(Split(cmd, "!")[1], << "S", "P" >>)
                       THEN Split(cmd, "!")[2] \o << "ø", "F" >>
                       ELSE Split(cmd, "!")[2] >> }

\* FakeDevIO.write: the line the device answers with
DeviceReply(d, cmd) ==
    IF IsWrite(cmd) THEN Split(cmd, "!")[1] \o << ":", "A", "C", "K" >>
    ELSE DevReply(d, cmd)

\* the lines waiting to be read once the answer is there. DevIO is an
\* interface: FakeDevIO holds one line, which the answer replaces; the tty of
\* ProdDevIO keeps the lines not read yet and readline returns the oldest
LineAfter(line, reply) ==
    { << reply >>, IF Len(line) < MaxRx THEN Append(line, reply) ELSE line }

\* the transport write of task t completes and the device has answered
DeviceWriteDone(t) ==
    /\ pc[t] = "writing"
    /\ \E line \in LineAfter(rx, DeviceReply(dev, cur[t].cmd)) :
           \E nxt \in { [Now EXCEPT !.pc[t] = "reading", !.rx = line] } : MuxBecomes(nxt)
    /\ dev' = DevStore(dev, cur[t].cmd)
    /\ UNCHANGED << enum, call >>
    /\ UNCHANGED regVars
    /\ UNCHANGED pureVars

DeviceInit ==
    /\ MuxInit
    /\ RegInit
    /\ dev = DevHtsp
    /\ enum = NoEnum
    /\ call = NoCall
    /\ QuietInit

DeviceNext ==
    \/ \E t \in Tasks, cmd \in Cmds : SendCommand(t, cmd)
    \/ \E t \in Tasks : DeviceWriteDone(t)
    \/ \E t \in Tasks : ReadLine(t)
    \/ \E t \in Tasks : Timeout(t)
    \/ \E t \in Tasks : Wake(t)

\* the multiplexer on a line whose device answers what it was asked
DeviceSpec == DeviceInit /\ [][DeviceNext]_vars

\* ------------------------------------------------------------ faults
\* an exception raised at the suspension point of the task driving the
\* drain: no try/finally or except clause of _maybe_process_commands or
\* _send_command catches it (lines 201-207 catch TimeoutError only), so it
\* unwinds every frame of the drain and the task's _send_command call. The
\* locals (cmd, fut, attempt) are gone, the attributes of the multiplexer
\* stay as they are, and the task is free to call again.
Unwind(s, t) ==
    [s EXCEPT !.pc[t] = "idle", !.arg[t] = None, !.fut[t] = NoFut,
              !.cur[t] = NoEntry, !.attempt[t] = 0, !.ex[t] = NoEx,
              !.order = Remove(@, t),
              !.behind = { p \in @ : p[1] # t /\ p[2] # t }]

\* device.write or device.read_next raises an error other than the timeout
\* (an OSError of the serial port)
TransportRaises(t) ==
    /\ pc[t] \in { "writing", "reading" }
    /\ \E nxt \in { Unwind(Now, t) } : Becomes(nxt)

\* the task driving the drain is cancelled: CancelledError is raised at the
\* await it is suspended in
Cancel(t) ==
    /\ pc[t] \in { "writing", "reading" }
    /\ cur[t] # NoEntry
    /\ \E nxt \in { Unwind(Now, t) } : Becomes(nxt)

FaultNext ==
    \/ \E t \in Tasks, cmd \in Cmds : SendCommand(t, cmd)
    \/ \E t \in Tasks, reply \in Lines \cup { None } : WriteDone(t, reply)
    \/ \E t \in Tasks : ReadLine(t)
    \/ \E t \in Tasks : Timeout(t)
    \/ \E t \in Tasks : Wake(t)
    \/ \E t \in Tasks : TransportRaises(t)
    \/ \E t \in Tasks : Cancel(t)

\* the multiplexer with transport errors and cancellation of the drainer
FaultSpec == Init /\ [][FaultNext]_vars

\* ------------------------------------------------------------ vocabulary of the claims
Busy(t) == pc[t] \in { "writing", "reading" }
Drainers == { t \in Tasks : cur[t] # NoEntry }
QueuedReads == { pending_reads[i].fut : i \in 1 .. Len(pending_reads) }
QueuedWrites == { pending_writes[i].fut : i \in 1 .. Len(pending_writes) }
QueuedReadsAfter == { pending_reads'[i].fut : i \in 1 .. Len(pending_reads') }
QueuedWritesAfter == { pending_writes'[i].fut : i \in 1 .. Len(pending_writes') }
Pos(seq, x) == CHOOSE i \in 1 .. Len(seq) : seq[i] = x
\* a submitted before b, both still unresolved
Older(seq, a, b) ==
    /\ \E i \in 1 .. Len(seq) : seq[i] = a
    /\ \E i \in 1 .. Len(seq) : seq[i] = b
    /\ Pos(seq, a) < Pos(seq, b)
\* this step pops an entry into task t's drain
Pops(t) == cur'[t] # NoEntry /\ cur'[t] # cur[t]
\* this step makes task t's _send_command(cmd) call start
Submits(t) == pc[t] = "idle" /\ pc'[t] # "idle"
\* this step resolves the future of f
Resolves(f) == fut'[f].done /\ ~fut[f].done
\* this step hands a line of the transport to task t's read_next
Receives(t) == pc[t] = "reading" /\ rx # << >> /\ rx' = Tail(rx)

\* ------------------------------------------------------------ C1
\* C1: at most one task is inside a transport write or read at any instant
\* and at most one drain holds a popped command; a submitter that finds
\* _is_cmd_active true only appends its own entry and waits for its future:
\* it pops nothing and issues no write.
C1_OneExchange ==
    /\ Cardinality({ t \in Tasks : Busy(t) }) <= 1
    /\ Cardinality(Drainers) <= 1
    /\ is_cmd_active <=> Drainers # {}
C1_SecondSubmitter ==
    \A t \in Tasks :
        (Submits(t) /\ is_cmd_active) =>
            /\ pc'[t] = "awaiting"
            /\ cur' = cur /\ ex' = ex /\ attempt' = attempt /\ rx' = rx
            /\ Len(pending_reads') + Len(pending_writes')
                   = Len(pending_reads) + Len(pending_writes) + 1
            /\ t \in QueuedReadsAfter \cup QueuedWritesAfter
C1_MutualExclusion == [](C1_OneExchange) /\ [][C1_SecondSubmitter]_vars
\* an exchange is in progress while another submitter waits in a queue
C1_Witness ==
    \E t, u \in Tasks :
        Busy(t) /\ pc[u] = "awaiting" /\ u \in QueuedReads \cup QueuedWrites

\* ------------------------------------------------------------ C2
\* C2: whenever a command is selected, a read is selected only if no write is
\* pending, and a selected write is older than every write left pending; a read
\* that was queued when a write was submitted stays queued and unresolved
\* until that write is resolved.
C2_Selection ==
    \A t \in Tasks :
        Pops(t) =>
            /\ ~IsWrite(cur'[t].cmd) => pending_writes' = << >>
            /\ IsWrite(cur'[t].cmd) =>
                   \A w \in QueuedWritesAfter : Older(order', cur'[t].fut, w)
C2_Overtake ==
    \A p \in behind :
        /\ p[2] \in QueuedReads
        /\ ~fut[p[2]].done
        /\ \A t \in Tasks : cur[t].fut # p[2]
C2_WritesFirst == [](C2_Overtake) /\ [][C2_Selection]_vars
\* a write has just been resolved ahead of a read that was queued before it
C2_Witness ==
    /\ lastDone.fut # 0
    /\ IsWrite(lastDone.cmd)
    /\ lastDone.passed # {}
    /\ lastDone.passed \subseteq QueuedReads \cup { cur[t].fut : t \in Tasks }

\* ------------------------------------------------------------ C3
\* C3: the command selected is older than every command left in its own
\* queue, and the future resolved is that of the oldest unresolved command of
\* its class; the write queue holds exactly the commands that contain "!".
SameClass(a, b) == HasChar(arg[a], "!") <=> HasChar(arg[b], "!")
C3_Queues ==
    /\ \A i \in 1 .. Len(pending_writes) : HasChar(pending_writes[i].cmd, "!")
    /\ \A i \in 1 .. Len(pending_reads) : ~HasChar(pending_reads[i].cmd, "!")
    /\ \A t \in Tasks :
           (pc[t] = "awaiting" /\ ~fut[t].done /\ (\A u \in Tasks : cur[u].fut # t)) =>
               IF HasChar(arg[t], "!")
               THEN t \in QueuedWrites /\ t \notin QueuedReads
               ELSE t \in QueuedReads /\ t \notin QueuedWrites
C3_Order ==
    /\ \A t \in Tasks :
           Pops(t) =>
               \A f \in (IF HasChar(cur'[t].cmd, "!") THEN QueuedWritesAfter
                         ELSE QueuedReadsAfter) : Older(order', cur'[t].fut, f)
    /\ \A f \in Tasks :
           Resolves(f) =>
               \A g \in Tasks : ~(SameClass(f, g) /\ Older(order, g, f))
C3_Fifo == [](C3_Queues) /\ [][C3_Order]_vars
\* a read has just been resolved, the next read is in flight and a third waits
C3_Witness ==
    /\ lastDone.fut # 0 /\ ~IsWrite(lastDone.cmd)
    /\ \E t \in Tasks : cur[t] # NoEntry /\ ~IsWrite(cur[t].cmd)
    /\ pending_reads # << >>

\* ------------------------------------------------------------ C4
\* the acceptance rule as the spec words it, for the claims that test the code
\* against it
Prefix(cmd) == IF HasChar(cmd, "!") THEN SubSeq(cmd, 1, FirstIndex(cmd, "!") - 1)
               ELSE IF HasChar(cmd, "?") THEN SubSeq(cmd, 1, FirstIndex(cmd, "?") - 1)
               ELSE cmd
Good(cmd, line) ==
    /\ line # None
    /\ StartsWith(line, Prefix(cmd))
    /\ ~Contains(line, << "N", "A", "K" >>)

\* C4: a command whose attempts all failed (the exchange ended on a timeout
\* or on a rejected line) resolves to None and its _send_command returns None.
C4_AbsentAfterFailures ==
    /\ (lastDone.fut # 0 /\ ~Good(lastDone.cmd, lastDone.val)) => lastDone.val = None
    /\ (lastRet.task # 0 /\ ~Good(lastRet.cmd, lastRet.raw)) => lastRet.val = None

\* ------------------------------------------------------------ C5
\* C5: a popped command has between 1 and 3 writes; while it is in flight
\* the writes are one ahead of the finished reads, and when it ends they are
\* equal; a further write of the same command follows only a read that timed
\* out or returned a rejected line.
C5_Counts ==
    /\ \A t \in Drainers :
           /\ Busy(t)
           /\ ex[t].wr >= 1 /\ ex[t].wr <= MaxAttempts
           /\ ex[t].wr = ex[t].rd + 1
           /\ ex[t].wr = attempt[t] + 1
    /\ lastDone.fut # 0 =>
           /\ lastDone.wr >= 1 /\ lastDone.wr <= MaxAttempts
           /\ lastDone.wr = lastDone.rd
C5_Retry ==
    \A t \in Tasks :
        (cur[t] # NoEntry /\ cur'[t] = cur[t] /\ ex'[t].wr # ex[t].wr) =>
            /\ pc[t] = "reading" /\ pc'[t] = "writing"
            /\ ex'[t].wr = ex[t].wr + 1
            /\ ex'[t].rd = ex[t].rd + 1
            /\ IF Receives(t) THEN ~Good(cur[t].cmd, Head(rx)) ELSE rx' = rx
C5_AttemptBudget == [](C5_Counts) /\ [][C5_Retry]_vars
\* an exchange used its whole budget
C5_Witness == lastDone.fut # 0 /\ lastDone.wr = MaxAttempts /\ lastDone.rd = MaxAttempts

\* ------------------------------------------------------------ C6
\* C6: a received line ends the loop before the budget is used up exactly
\* when it starts with the prefix and has no NAK; the exchange that ends on an
\* accepted line has as many writes as attempts, its future holds that line
\* and the submitter gets the text after the line's ':'.
C6_Loop ==
    \A t \in Tasks :
        Receives(t) =>
            IF Good(cur[t].cmd, Head(rx))
            THEN /\ lastDone'.fut = cur[t].fut
                 /\ lastDone'.val = Head(rx)
                 /\ lastDone'.wr = attempt[t] + 1
                 /\ cur'[t] # cur[t]
            ELSE IF attempt[t] + 1 < MaxAttempts
            THEN cur'[t] = cur[t] /\ pc'[t] = "writing" /\ lastDone'.fut = 0
            ELSE lastDone'.fut = cur[t].fut
C6_Result ==
    /\ (lastDone.fut # 0 /\ Good(lastDone.cmd, lastDone.val)) =>
           /\ lastDone.wr = lastDone.rd
           /\ lastDone.nl >= 1
    /\ (lastRet.task # 0 /\ Good(lastRet.cmd, lastRet.raw)) =>
           /\ HasChar(lastRet.raw, ":")
           /\ lastRet.val = Drop(lastRet.raw, FirstIndex(lastRet.raw, ":"))
C6_Acceptance == [](C6_Result) /\ [][C6_Loop]_vars
\* a set command has just succeeded on its third write, after two rejected lines
C6_Witness ==
    /\ lastDone.fut # 0 /\ lastDone.cmd = CmdSetHtsp /\ lastDone.val = LineAck
    /\ lastDone.wr = 3 /\ lastDone.nl = 3
    /\ lastRet.task = lastDone.fut /\ lastRet.val = << "A", "C", "K" >>

\* ------------------------------------------------------------ C8
\* C8: an exchange during which the transport delivered no line ends after
\* exactly 3 writes and 3 abandoned reads, resolves to None, returns None, and
\* leaves the flag raised only for a command popped after it.
C8_Timeouts ==
    (lastDone.fut # 0 /\ lastDone.nl = 0) =>
        /\ lastDone.wr = 3 /\ lastDone.rd = 3
        /\ lastDone.val = None
        /\ is_cmd_active => \E t \in Tasks : cur[t] # NoEntry /\ cur[t].fut # lastDone.fut
        /\ fut[lastDone.fut].done => fut[lastDone.fut].val = None
        /\ lastRet.task = lastDone.fut => lastRet.val = None
        /\ pc[lastDone.fut] \in { "idle", "awaiting", "writing" }
\* a lone read has just timed out three times and returned
C8_Witness ==
    /\ lastDone.fut # 0 /\ lastDone.nl = 0 /\ lastDone.cmd = CmdReadHtsp
    /\ lastRet.task = lastDone.fut /\ lastRet.val = None
    /\ ~is_cmd_active

\* ------------------------------------------------------------ C9
\* C9: set_result is called at most once on a future, and only for an entry
\* that has left its queue and whose exchange is over; an entry is in one
\* place only (one queue, or one drain); the future resolved by an exchange is
\* the one its command was submitted with, and a resolved future keeps its
\* value until its submitter returns with it.
Places(f) ==
    Cardinality({ i \in 1 .. Len(pending_reads) : pending_reads[i].fut = f })
    + Cardinality({ i \in 1 .. Len(pending_writes) : pending_writes[i].fut = f })
    + Cardinality({ t \in Tasks : cur[t].fut = f })
C9_State ==
    /\ \A f \in Tasks :
           /\ fut[f].n <= 1
           /\ fut[f].done <=> fut[f].n = 1
           /\ Places(f) <= 1
           /\ fut[f].done => Places(f) = 0
           /\ (pc[f] # "idle" /\ ~fut[f].done) => Places(f) = 1
           /\ pc[f] = "idle" => Places(f) = 0 /\ ~fut[f].done
    /\ \A i \in 1 .. Len(pending_reads) :
           pending_reads[i].cmd = arg[pending_reads[i].fut]
    /\ \A i \in 1 .. Len(pending_writes) :
           pending_writes[i].cmd = arg[pending_writes[i].fut]
    /\ \A t \in Drainers : cur[t].cmd = arg[cur[t].fut]
    /\ lastDone.fut # 0 =>
           IF pc[lastDone.fut] = "idle"
           THEN /\ lastRet.task = lastDone.fut
                /\ lastRet.cmd = lastDone.cmd
                /\ lastRet.raw = lastDone.val
           ELSE /\ fut[lastDone.fut].done
                /\ fut[lastDone.fut].val = lastDone.val
                /\ arg[lastDone.fut] = lastDone.cmd
C9_Step ==
    \A f \in Tasks :
        /\ fut[f].done =>
               \/ fut'[f] = fut[f]
               \/ pc'[f] = "idle" /\ lastRet'.task = f /\ lastRet'.raw = fut[f].val
        /\ Resolves(f) => \E t \in Tasks : cur[t].fut = f /\ pc[t] = "reading"
        /\ (pc[f] # "idle" /\ pc'[f] = "idle") => lastRet'.task = f
C9_SingleAssignment == [](C9_State) /\ [][C9_Step]_vars
\* a waiting submitter's future has been resolved, once, and not yet collected
C9_Witness ==
    \E f \in Tasks :
        pc[f] = "awaiting" /\ fut[f].done /\ fut[f].n = 1 /\ lastDone.fut = f

\* ------------------------------------------------------------ C10
\* C10: io.open() is started at most once and at most one _CoreClient is
\* constructed per tty; two endpoints for one tty hold the same client and
\* endpoints for different ttys hold different clients.
Held == { c \in Callers : endpoint[c] # NoEndpoint }
C10_AtMostOnce ==
    /\ \A tty \in Ttys :
           /\ opens[tty] <= 1
           /\ Cardinality({ i \in 1 .. Len(cores) : cores[i] = tty }) <= 1
           /\ Cardinality({ c \in Callers : gpc[c] = "opening" /\ gtty[c] = tty }) <= 1
    /\ \A c \in Held :
           /\ endpoint[c].client \in 1 .. Len(cores)
           /\ cores[endpoint[c].client] = endpoint[c].tty
    /\ \A c, d \in Held :
           (endpoint[c].tty = endpoint[d].tty) <=> (endpoint[c].client = endpoint[d].client)
\* two callers that raced for one tty and a third for another tty all hold
\* their endpoints
C10_Witness ==
    \E c, d, e \in Held :
        /\ c # d
        /\ endpoint[c].tty = endpoint[d].tty
        /\ endpoint[c].client = endpoint[d].client
        /\ endpoint[e].tty # endpoint[c].tty
        /\ endpoint[e].client # endpoint[c].client

\* ------------------------------------------------------------ C7
Called(t) == pc[t] # "idle"
Returned(t) == pc[t] = "idle"
Resolved(t) == fut[t].done \/ pc[t] = "idle"
\* C7 as claimed: every submitted command has its future resolved and its
\* _send_command call returns, whatever the other submitters do.
C7_AlwaysReturns ==
    \A t \in Tasks : (Called(t) ~> Resolved(t)) /\ (Called(t) ~> Returned(t))
\* C7 amended: a command never waits in a queue while no exchange is in
\* progress, and unless commands keep being submitted forever every submitted
\* command has its future resolved and its _send_command call returns: from
\* some point on every call has returned.
C7_NoIdleQueue ==
    (pending_reads # << >> \/ pending_writes # << >>) =>
        \E t \in Tasks : Busy(t) /\ cur[t] # NoEntry /\ is_cmd_active
C7_ReturnsUnlessFlooded ==
    /\ [](C7_NoIdleQueue)
    /\ \/ []<><<AnySubmit>>_vars
       \/ <>[](\A t \in Tasks : Returned(t))
\* a submitter that waited in a queue has returned and every call is over
C7_Witness ==
    /\ lastRet.task # 0 /\ lastDone.fut = 0
    /\ \A t \in Tasks : Returned(t)

\* ------------------------------------------------------------ C11
Calling(c) == gpc[c] \in { "opening", "waiting" }
Ended(c) == gpc[c] \in { "done", "raised" }
\* C11: every get_client call terminates, with an endpoint or with the
\* failure of io.open(): the calls waiting on the placeholder of a tty whose
\* open failed, and the calls made for that tty after the failure, included.
C11_OpenFailureTerminates == \A c \in Callers : Calling(c) ~> Ended(c)

\* ------------------------------------------------------------ C12
ZoneInfo(system_id, zone_id, name) ==
    [type |-> "ZoneInfo", system_id |-> system_id, zone_id |-> zone_id, name |-> name]
\* f"S{system_id}Z{zone_id}NAME?", the zone-name read
CmdReadZoneName(system_id, zone_id) == KeyName(system_id, zone_id) \o << "?" >>
\* the ZoneInfo of the zones from zone_id up whose read was non-absent
RECURSIVE ZoneInfosFrom(_, _, _)
ZoneInfosFrom(system_id, reads, zone_id) ==
    IF zone_id > Len(reads) THEN << >>
    ELSE (IF reads[zone_id] # None
          THEN << ZoneInfo(system_id, zone_id, reads[zone_id]) >> ELSE << >>)
         \o ZoneInfosFrom(system_id, reads, zone_id + 1)
\* C12: a finished enumerate_zones(system_id, tty) has probed each zone id
\* 1..8 once, in ascending order, with a zone-name read through the
\* multiplexer of tty, and returns the ZoneInfo(system_id, zone_id, name) of
\* exactly the zones whose read was non-absent, in ascending zone id.
C12_Enumeration ==
    enum.pc = "done" =>
        /\ enum.probes = [z \in 1 .. MaxZones |-> CmdReadZoneName(enum.system_id, z)]
        /\ enum.clients = { futures[registry[enum.tty]].core }
        /\ enum.zones = ZoneInfosFrom(enum.system_id, enum.reads, 1)

\* ------------------------------------------------------------ C13
\* C13: a set operation returns true exactly when the payload its
\* _send_command returned is "ACK", false for any other payload and for the
\* absent value; when it has returned, the transport has seen only the 1 to
\* 3 writes of its own command and nothing is queued or in flight: no
\* reconciliation read follows a false result.
C13_SetResult ==
    call.pc = "done" =>
        /\ call.result \in BOOLEAN
        /\ call.result <=> (call.payload = << "A", "C", "K" >>)
        /\ Len(call.wire) \in 1 .. MaxAttempts
        /\ \A i \in 1 .. Len(call.wire) : call.wire[i] = call.cmd
        /\ pc[SetTask] = "idle"
        /\ pending_reads = << >> /\ pending_writes = << >> /\ ~is_cmd_active
\* a set operation has returned false on a payload that is not "ACK"
C13_Witness ==
    /\ call.pc = "done"
    /\ ~call.result
    /\ call.payload = << "A", "C", "K", "A", "C", "K" >>

\* ------------------------------------------------------------ C14
DigitSet == { "0", "1", "2", "3", "4", "5", "6", "7", "8", "9" }
Decimal(ch) ==
    CASE ch = "0" -> 0 [] ch = "1" -> 1 [] ch = "2" -> 2 [] ch = "3" -> 3
      [] ch = "4" -> 4 [] ch = "5" -> 5 [] ch = "6" -> 6 [] ch = "7" -> 7
      [] ch = "8" -> 8 [] ch = "9" -> 9
\* the number the first k characters of str write, read left to right
RECURSIVE Numeral(_, _, _)
Numeral(str, k, acc) ==
    IF k = 0 THEN acc ELSE Numeral(Tail(str), k - 1, 10 * acc + Decimal(Head(str)))
\* the first k characters of str are its leading run of digits
LeadingDigits(str, k) ==
    /\ \A i \in 1 .. k : str[i] \in DigitSet
    /\ k < Len(str) => str[k + 1] \notin DigitSet
\* C14 as claimed: a payload that begins with a run of digits followed by
\* any non-digit character decodes to the value of the run; a payload with
\* no leading digit, and the absent value, decode to absent.
C14_LeadingInteger ==
    out.fn = "_parse_temperature" =>
        /\ inp = None => out.val = NoInt
        /\ inp # None =>
            \A k \in 0 .. Len(inp) :
                LeadingDigits(inp, k) =>
                    /\ k = 0 => out.val = NoInt
                    /\ (k >= 1 /\ k < Len(inp)) => out.val = SomeInt(Numeral(inp, k, 0))
\* C14 amended: the run of digits must be followed by an upper-case letter
\* A-Z; followed by any other character or by nothing, it decodes to absent.
C14_DigitsThenUpper ==
    out.fn = "_parse_temperature" =>
        /\ inp = None => out.val = NoInt
        /\ inp # None =>
            \A k \in 0 .. Len(inp) :
                LeadingDigits(inp, k) =>
                    out.val = IF k >= 1 /\ k < Len(inp) /\ inp[k + 1] \in UpperChars
                              THEN SomeInt(Numeral(inp, k, 0))
                              ELSE NoInt
\* "72F" has been decoded to 72
C14_Witness ==
    /\ out.fn = "_parse_temperature"
    /\ inp = << "7", "2", "F" >>
    /\ out.val = SomeInt(72)

\* ------------------------------------------------------------ C15
\* str is a mode token: one or more upper-case letters
ModeToken(str) == str # << >> /\ \A i \in 1 .. Len(str) : str[i] \in UpperChars
\* C15: of the payload _send_command returns to read_hvac_mode, a bare mode
\* token decodes to (mode, False), a mode token followed by a space and a
\* digit to (mode, True); the absent value, the empty payload and any other
\* text decode to absent, so that the mode of a returned pair is always a
\* mode token the device sent as the value.
C15_ModeDecoding ==
    (call.op = "read_hvac_mode" /\ call.pc = "done") =>
        call.mode =
            IF call.payload = None THEN NoMode
            ELSE IF ModeToken(call.payload) THEN SomeMode(call.payload, FALSE)
            ELSE IF /\ Len(call.payload) >= 3
                    /\ ModeToken(SubSeq(call.payload, 1, Len(call.payload) - 2))
                    /\ call.payload[Len(call.payload) - 1] = " "
                    /\ call.payload[Len(call.payload)] \in DigitSet
            THEN SomeMode(SubSeq(call.payload, 1, Len(call.payload) - 2), TRUE)
            ELSE NoMode

\* ------------------------------------------------------------ C16
LowerSet == { LowerSeq[i] : i \in 1 .. 26 }
\* the text of a written command after its first "!"
TokenOf(cmd) == SubSeq(cmd, FirstIndex(cmd, "!") + 1, Len(cmd))
\* C16: every command a set_hvac_mode call writes is "S<system>MODE!<TOKEN>"
\* with the mode upper-cased and "heat_cool" replaced by "AUTO"; every
\* command a set_fan_mode call writes is "S<system>Z<zone>FAN!<TOKEN>" with
\* the fan token upper-cased; no token written after "!" holds a lower-case
\* letter.
C16_UpperTokens ==
    \A i \in 1 .. Len(call.wire) :
        /\ call.op = "set_hvac_mode" =>
               call.wire[i] = << "S" >> \o IntToStr(call.system_id)
                                \o << "M", "O", "D", "E", "!" >>
                                \o (IF call.arg = << "h", "e", "a", "t", "_", "c", "o", "o", "l" >>
                                    THEN << "A", "U", "T", "O" >> ELSE Upper(call.arg))
        /\ call.op = "set_fan_mode" =>
               call.wire[i] = << "S" >> \o IntToStr(call.system_id) \o << "Z" >>
                                \o IntToStr(call.zone_id) \o << "F", "A", "N", "!" >>
                                \o Upper(call.arg)
        /\ call.op \in { "set_hvac_mode", "set_fan_mode" } =>
               \A j \in 1 .. Len(TokenOf(call.wire[i])) :
                   TokenOf(call.wire[i])[j] \notin LowerSet

\* ------------------------------------------------------------ C17
\* C17: every _api_request call of the HTTP client posts its command once:
\* the commands posted are the commands of the calls, one each, in order,
\* whatever the earlier posts ended with; a post that ends with a transport
\* error or with an error status (500) makes the call return the absent
\* value and raise nothing; a reply whose "response" is NAK makes it return
\* "NAK".
C17_PostOnce ==
    /\ Len(http.wire) = http.calls
    /\ http.pc # "idle" => http.wire[Len(http.wire)] = http.command
    /\ http.pc = "done" =>
        /\ (http.outcome.error # "" \/ http.outcome.status >= 400) =>
               (http.result = None /\ http.raised = "")
        /\ (/\ http.outcome.status = 200
            /\ http.body.kind = "object"
            /\ http.body.has_response
            /\ http.body.response = << "N", "A", "K" >>) =>
               (http.result = << "N", "A", "K" >> /\ http.raised = "")

\* ------------------------------------------------------------ C18
\* C18: wherever a submitter can observe the multiplexer (on entry to
\* _send_command and when its _send_command goes on after its future), a
\* non-empty read or write queue comes with _is_cmd_active true, and no
\* _check_rep assertion has failed.
C18_CheckRepHolds ==
    /\ (Len(pending_reads) > 0 \/ Len(pending_writes) > 0) => is_cmd_active
    /\ \A t \in Tasks : pc[t] # "failed"
\* two submitters are queued behind an exchange: the second one entered
\* _send_command, and passed _check_rep, with a non-empty queue
C18_Witness ==
    /\ Cardinality(QueuedReads \cup QueuedWrites) >= 2
    /\ \E t \in Tasks : Busy(t)

\* ------------------------------------------------------------ C19
\* C19: the submitter that started a drain gets control back only in a step
\* that leaves both queues empty and no command in flight, and then its
\* _send_command returns; an entry of another submitter is popped by the task
\* already draining, in a step of its exchange and not in a submission; a
\* submitter that found a drain active holds no popped entry while it waits,
\* and goes on only once its own future is resolved, touching neither the
\* queues nor the transport.
C19_DrainerStep ==
    \A t \in Tasks :
        /\ (Submits(t) /\ ~is_cmd_active) => (pc'[t] = "writing" /\ cur'[t].fut = t)
        /\ (cur[t] # NoEntry /\ pc'[t] \notin { "writing", "reading" }) =>
               /\ pending_reads' = << >> /\ pending_writes' = << >>
               /\ ~is_cmd_active'
               /\ \A u \in Tasks : cur'[u] = NoEntry
               /\ lastRet'.task = t
        /\ (Pops(t) /\ cur'[t].fut # t) =>
               /\ cur[t] # NoEntry
               /\ pc[t] = "reading"
               /\ \A u \in Tasks : ~Submits(u)
C19_WaiterStep ==
    \A t \in Tasks :
        (pc[t] = "awaiting" /\ pc'[t] # "awaiting") =>
            /\ fut[t].done
            /\ lastRet'.task = t
            /\ pending_reads' = pending_reads /\ pending_writes' = pending_writes
            /\ cur' = cur /\ ex' = ex /\ rx' = rx
C19_Waiters ==
    \A t \in Tasks : pc[t] = "awaiting" => (cur[t] = NoEntry /\ ex[t] = NoEx)
C19_DrainOnCallersStack ==
    [](C19_Waiters) /\ [][C19_DrainerStep /\ C19_WaiterStep]_vars
\* the task that started the drain has its own future resolved and is
\* executing the command of another submitter, which waits for its future
C19_Witness ==
    \E t, u \in Tasks :
        /\ t # u
        /\ fut[t].done
        /\ Busy(t)
        /\ cur[t].fut = u
        /\ pc[u] = "awaiting"

\* ------------------------------------------------------------ C20
\* C20: the transport's writes come in blocks, one per serviced command: a
\* write is either the first of a newly popped command, issued when nothing
\* is in flight or in the very step that resolves the future of the command
\* in flight before it, after 1 to 3 writes of that command; or it is one
\* more copy of the command in flight, the 2nd or 3rd of its block. No write
\* of another command comes between, also when a write command is submitted
\* while a read is in flight; a future is resolved only for the command in
\* flight.
WritesNow(t) == pc'[t] = "writing" /\ pc[t] # "writing"
C20_FirstOfBlock(t) ==
    /\ ex'[t].wr = 1
    /\ cur'[t] # cur[t]
    /\ IF cur[t] = NoEntry
       THEN /\ ~is_cmd_active
            /\ cur'[t].fut = t
            /\ \A f \in Tasks : fut'[f].done = fut[f].done
       ELSE /\ Resolves(cur[t].fut)
            /\ \A f \in Tasks \ { cur[t].fut } : fut'[f].done = fut[f].done
            /\ lastDone'.cmd = cur[t].cmd
            /\ lastDone'.wr = ex[t].wr
            /\ ex[t].wr \in 1 .. MaxAttempts
C20_NextOfBlock(t) ==
    /\ cur[t] # NoEntry
    /\ cur'[t] = cur[t]
    /\ ex'[t].wr = ex[t].wr + 1
    /\ ex'[t].wr <= MaxAttempts
    /\ \A f \in Tasks : fut'[f].done = fut[f].done
C20_WriteStep ==
    /\ \A t \in Tasks :
           WritesNow(t) =>
               /\ cur'[t] # NoEntry
               /\ \A u \in Tasks \ { t } : cur[u] = NoEntry /\ cur'[u] = NoEntry
               /\ C20_FirstOfBlock(t) \/ C20_NextOfBlock(t)
    /\ \A f \in Tasks : Resolves(f) => \E t \in Tasks : cur[t].fut = f /\ pc[t] = "reading"
    /\ \A t \in Tasks : cur'[t] # cur[t] => (WritesNow(t) \/ cur'[t] = NoEntry)
C20_InFlight ==
    \A t \in Tasks :
        Busy(t) <=> (cur[t] # NoEntry /\ ex[t].wr \in 1 .. MaxAttempts)
C20_Blocks == [](C20_InFlight) /\ [][C20_WriteStep]_vars
\* a write command submitted while a read was in flight gets its first
\* transport write in the step that resolved the read after its retries
C20_Witness ==
    \E t \in Tasks :
        /\ pc[t] = "writing"
        /\ ex[t].wr = 1
        /\ IsWrite(cur[t].cmd)
        /\ lastDone.fut # 0
        /\ ~IsWrite(lastDone.cmd)
        /\ lastDone.wr >= 2

\* ------------------------------------------------------------ C21
\* C21: _send_command returns absent for an absent exchange result and for
\* a line without ':'; for an accepted line with a ':' it returns all the
\* text after the first ':', also when that text contains ':' itself.
C21_AfterFirstColon ==
    out.fn = "_send_command" =>
        /\ out.raw = None => out.val = None
        /\ (out.raw # None /\ ~HasChar(out.raw, ":")) => out.val = None
        /\ (out.raw # None /\ HasChar(out.raw, ":") /\ Accepts(CmdReadHtsp, out.raw)) =>
               out.val = Drop(out.raw, FirstIndex(out.raw, ":"))

\* ------------------------------------------------------------ C22
\* C22: with a device that answers each command it receives with that
\* command's own reply, every result a _send_command call returns is absent
\* or the payload of a reply to the call's own command: "ACK" for a write,
\* a stored setpoint ("70F" at first, "75F" once set) for a read; a reply
\* left on the line by an attempt that timed out never becomes the result of
\* another command.
C22_OwnReply ==
    (lastRet.task # 0 /\ lastRet.val # None) =>
        IF HasChar(lastRet.cmd, "!")
        THEN lastRet.val = << "A", "C", "K" >>
        ELSE lastRet.val \in { << "7", "0", "F" >>, << "7", "5", "F" >> }
\* ------------------------------------------------------------ C23
\* C23: also when the task driving the drain is cancelled or a transport
\* write or read raises an error other than the timeout, _is_cmd_active is
\* true only while an exchange is running, and a popped command's future is
\* resolved: no submitter waits for a future that is in no queue and in no
\* running exchange.
C23_NoWedge ==
    /\ is_cmd_active => \E t \in Tasks : Busy(t)
    /\ \A u \in Tasks :
           (pc[u] = "awaiting" /\ ~fut[u].done) =>
               \/ u \in QueuedReads \cup QueuedWrites
               \/ \E t \in Tasks : Busy(t) /\ cur[t].fut = u
====
